---- MODULE Spec2Model ----
(***************************************************************************)
(* A model of the Tab5 hardware abstraction layer (HalEsp32) and of the    *)
(* GC2145 Kconfig default-format selection.                                *)
(*                                                                         *)
(* The HAL is called from one task: an operation runs to completion before *)
(* the next starts.  scanSdCard is modelled step by step, one step per     *)
(* call into the BSP / libc, so that the order of those calls is visible.  *)
(***************************************************************************)
EXTENDS Integers, Sequences, FiniteSets

VARIABLES
    \* ---- SD card (hal_esp32.cpp, "SD Card" section) ----
    sd_card_mounted,   \* HalEsp32::_sd_card_mounted
    sd_pc,             \* position inside scanSdCard ("idle" = not in a call)
    dirPath,           \* argument of the current / last scanSdCard call
    file_entries,      \* local vector file_entries of scanSdCard
    dir_stream,        \* entries the opened DIR* will yield (environment)
    dir_pos,           \* number of entries readdir has yielded so far
    sd_log,            \* BSP / libc calls made by the current / last scan
    scan_ret,          \* value the last scanSdCard returned (<<>> during a call)
    mounted_at_call,   \* _sd_card_mounted when the current / last scan began
    n_scans,           \* number of scanSdCard calls started
    n_init_ok,         \* number of bsp_sdcard_init calls that returned ESP_OK
    n_deinit,          \* number of bsp_sdcard_deinit calls
    is_mounted_ret,    \* {} or {v}: v returned by the last isSdCardMounted
    \* ---- display brightness ----
    current_lcd_brightness, \* HalEsp32::_current_lcd_brightness
    hw_brightness,     \* {} or {v}: last v given to bsp_display_brightness_set
    brightness_arg,    \* {} or {b}: argument of the last setDisplayBrightness
    brightness_ret,    \* {} or {v}: v returned by getDisplayBrightness just now
    \* ---- I2C scan ----
    i2c_devices,       \* bus -> set of addresses that acknowledge (environment)
    i2c_isInternal,    \* {} or {b}: argument of the last i2cScan
    i2c_bus,           \* {} or {bus}: i2c_bus_handle of the last i2cScan
    i2c_probed,        \* i2c_master_probe calls of the last i2cScan, in order
    i2c_addrs,         \* list returned by the last i2cScan
    \* ---- Kconfig (Kconfig.gc2145) ----
    kconfig,           \* user values of the symbols ("unset" = never set)
    sdkconfig,         \* evaluated configuration
    \* ---- init and the touch read callback ----
    init_log,          \* calls HalEsp32::init has made so far, in order
    lcd_touch_handle,  \* _lcd_touch_handle (BSP global), "NULL" or a handle
    cb_data_in,        \* {} or {d}: *data when the last lvgl_read_cb began
    cb_data_out,       \* {} or {d}: *data when the last lvgl_read_cb returned
    cb_touched,        \* {} or {b}: whether the panel was touched at that call
    cb_touch,          \* {} or {<<x, y>>}: touch_x[0], touch_y[0] of that call
    cb_calls           \* esp_lcd_touch calls made by the last lvgl_read_cb

sdVars   == <<sd_card_mounted, sd_pc, dirPath, file_entries, dir_stream, dir_pos,
              sd_log, scan_ret, mounted_at_call, n_scans, n_init_ok, n_deinit,
              is_mounted_ret>>
dispVars == <<current_lcd_brightness, hw_brightness, brightness_arg, brightness_ret>>
i2cVars  == <<i2c_devices, i2c_isInternal, i2c_bus, i2c_probed, i2c_addrs>>
kcVars   == <<kconfig, sdkconfig>>
uiVars   == <<init_log, lcd_touch_handle, cb_data_in, cb_data_out, cb_touched,
              cb_touch, cb_calls>>
vars     == <<sdVars, dispVars, i2cVars, kcVars, uiVars>>

\* What the operations of one part leave alone.
notSd   == <<dispVars, i2cVars, kcVars, uiVars>>
notDisp == <<sdVars, i2cVars, kcVars, uiVars>>
notI2c  == <<sdVars, dispVars, kcVars, uiVars>>
notKc   == <<sdVars, dispVars, i2cVars, uiVars>>
notUi   == <<sdVars, dispVars, i2cVars, kcVars>>

----------------------------------------------------------------------------
(* Bounds *)

MaxScans   == 3   \* scanSdCard calls in one behaviour
MaxEntries == 2   \* entries in a scanned directory
MaxDevices == 2   \* devices present on the two I2C buses together

----------------------------------------------------------------------------
(* SD card *)

\* Results bsp_sdcard_init can give.
EspErrs == {"ESP_OK", "ESP_FAIL", "ESP_ERR_TIMEOUT"}

\* Directory arguments tried.
DirPaths == {"", "music"}

\* The directory entries (d_name, d_type) readdir can yield.
Dirent(name, type) == [d_name |-> name, d_type |-> type]
Dirents == {Dirent(".", "DT_DIR"), Dirent("..", "DT_DIR"),
            Dirent(".cfg", "DT_REG"), Dirent("a.txt", "DT_REG"),
            Dirent("music", "DT_DIR"), Dirent("dev", "DT_UNKNOWN")}

\* What an opened directory can contain.
DirListings == UNION {[1..n -> Dirents] : n \in 0..MaxEntries}

LogEntry(op, arg, ok) == [op |-> op, arg |-> arg, ok |-> ok]

\* Faulty variant: only ESP_FAIL counts as a failed mount.
InitFailed_OnlyEspFail(r) == r = "ESP_FAIL"
\* if (bsp_sdcard_init("/sd", 25) != ESP_OK)
InitFailed(r) == r # "ESP_OK"

\* if (std::string(entry->d_name) == "." || std::string(entry->d_name) == "..")
IsDotEntry(name) == name = "." \/ name = ".."

\* Faulty variant: everything that is not a regular file is a directory.
MakeFileEntry_NotReg(entry) ==
    [name |-> entry.d_name, isDir |-> (entry.d_type # "DT_REG")]
\* file_entry.name = entry->d_name; file_entry.isDir = (entry->d_type == DT_DIR);
MakeFileEntry(entry) ==
    [name |-> entry.d_name, isDir |-> (entry.d_type = "DT_DIR")]

\* bool HalEsp32::isSdCardMounted() { return true; }
isSdCardMountedResult == TRUE

InitSd ==
    /\ sd_card_mounted = FALSE
    /\ sd_pc = "idle"
    /\ dirPath = ""
    /\ file_entries = <<>>
    /\ dir_stream = <<>>
    /\ dir_pos = 0
    /\ sd_log = <<>>
    /\ scan_ret = <<>>
    /\ mounted_at_call = FALSE
    /\ n_scans = 0
    /\ n_init_ok = 0
    /\ n_deinit = 0
    /\ is_mounted_ret = {}

\* scanSdCard entry up to and including the mount attempt.
ScanBegin(path, r) ==
    /\ sd_pc = "idle"
    /\ n_scans < MaxScans
    /\ n_scans' = n_scans + 1
    /\ dirPath' = path
    /\ mounted_at_call' = sd_card_mounted
    /\ file_entries' = <<>>
    /\ dir_stream' = <<>>
    /\ dir_pos' = 0
    /\ is_mounted_ret' = {}
    /\ sd_log' = <<LogEntry("bsp_sdcard_init", "/sd", r = "ESP_OK")>>
    /\ n_init_ok' = IF r = "ESP_OK" THEN n_init_ok + 1 ELSE n_init_ok
    /\ IF InitFailed(r)
       THEN /\ scan_ret' = file_entries'
            /\ sd_pc' = "idle"
            /\ UNCHANGED sd_card_mounted
       ELSE /\ sd_card_mounted' = TRUE
            /\ sd_pc' = "opendir"
            /\ scan_ret' = <<>>
    /\ UNCHANGED n_deinit
    /\ UNCHANGED notSd

\* DIR* dir = opendir(target_path.c_str()); opened = dir != nullptr
ScanOpendir(opened, listing) ==
    /\ sd_pc = "opendir"
    /\ sd_log' = Append(sd_log, LogEntry("opendir", "/sd/" \o dirPath, opened))
    /\ IF opened
       THEN /\ dir_stream' = listing
            /\ sd_pc' = "readdir"
       ELSE /\ dir_stream' = <<>>
            /\ sd_pc' = "deinit_err"
    /\ UNCHANGED <<sd_card_mounted, dirPath, file_entries, dir_pos, scan_ret,
                   mounted_at_call, n_scans, n_init_ok, n_deinit, is_mounted_ret>>
    /\ UNCHANGED notSd

\* Faulty variant: the error path forgets _sd_card_mounted = false.
ScanDeinitErr_KeepFlag ==
    /\ sd_pc = "deinit_err"
    /\ sd_log' = Append(sd_log, LogEntry("bsp_sdcard_deinit", "/sd", TRUE))
    /\ n_deinit' = n_deinit + 1
    /\ scan_ret' = file_entries
    /\ sd_pc' = "idle"
    /\ UNCHANGED <<sd_card_mounted, dirPath, file_entries, dir_stream, dir_pos,
                   mounted_at_call, n_scans, n_init_ok, is_mounted_ret>>
    /\ UNCHANGED notSd
\* The error path of opendir: bsp_sdcard_deinit, clear the flag, return.
ScanDeinitErr ==
    /\ sd_pc = "deinit_err"
    /\ sd_log' = Append(sd_log, LogEntry("bsp_sdcard_deinit", "/sd", TRUE))
    /\ n_deinit' = n_deinit + 1
    /\ sd_card_mounted' = FALSE
    /\ scan_ret' = file_entries
    /\ sd_pc' = "idle"
    /\ UNCHANGED <<dirPath, file_entries, dir_stream, dir_pos,
                   mounted_at_call, n_scans, n_init_ok, is_mounted_ret>>
    /\ UNCHANGED notSd

\* Faulty variant: the loop exit skips closedir.
ScanReaddir_NoClose ==
    /\ sd_pc = "readdir"
    /\ IF dir_pos < Len(dir_stream)
       THEN LET entry == dir_stream[dir_pos + 1] IN
            /\ sd_log' = Append(sd_log, LogEntry("readdir", entry.d_name, TRUE))
            /\ dir_pos' = dir_pos + 1
            /\ file_entries' = IF IsDotEntry(entry.d_name)
                               THEN file_entries
                               ELSE Append(file_entries, MakeFileEntry(entry))
            /\ sd_pc' = "readdir"
       ELSE /\ sd_log' = Append(sd_log, LogEntry("readdir", "", FALSE))
            /\ sd_pc' = "deinit"
            /\ UNCHANGED <<dir_pos, file_entries>>
    /\ UNCHANGED <<sd_card_mounted, dirPath, dir_stream, scan_ret,
                   mounted_at_call, n_scans, n_init_ok, n_deinit, is_mounted_ret>>
    /\ UNCHANGED notSd
\* One evaluation of the while condition and, when an entry came, the body.
ScanReaddir ==
    /\ sd_pc = "readdir"
    /\ IF dir_pos < Len(dir_stream)
       THEN LET entry == dir_stream[dir_pos + 1] IN
            /\ sd_log' = Append(sd_log, LogEntry("readdir", entry.d_name, TRUE))
            /\ dir_pos' = dir_pos + 1
            /\ file_entries' = IF IsDotEntry(entry.d_name)
                               THEN file_entries
                               ELSE Append(file_entries, MakeFileEntry(entry))
            /\ sd_pc' = "readdir"
       ELSE /\ sd_log' = Append(sd_log, LogEntry("readdir", "", FALSE))
            /\ sd_pc' = "closedir"
            /\ UNCHANGED <<dir_pos, file_entries>>
    /\ UNCHANGED <<sd_card_mounted, dirPath, dir_stream, scan_ret,
                   mounted_at_call, n_scans, n_init_ok, n_deinit, is_mounted_ret>>
    /\ UNCHANGED notSd

\* closedir(dir);
ScanClosedir ==
    /\ sd_pc = "closedir"
    /\ sd_log' = Append(sd_log, LogEntry("closedir", "/sd/" \o dirPath, TRUE))
    /\ sd_pc' = "deinit"
    /\ UNCHANGED <<sd_card_mounted, dirPath, file_entries, dir_stream, dir_pos,
                   scan_ret, mounted_at_call, n_scans, n_init_ok, n_deinit,
                   is_mounted_ret>>
    /\ UNCHANGED notSd

\* Faulty variant: the normal path forgets _sd_card_mounted = false.
ScanDeinit_KeepFlag ==
    /\ sd_pc = "deinit"
    /\ sd_log' = Append(sd_log, LogEntry("bsp_sdcard_deinit", "/sd", TRUE))
    /\ n_deinit' = n_deinit + 1
    /\ scan_ret' = file_entries
    /\ sd_pc' = "idle"
    /\ UNCHANGED <<sd_card_mounted, dirPath, file_entries, dir_stream, dir_pos,
                   mounted_at_call, n_scans, n_init_ok, is_mounted_ret>>
    /\ UNCHANGED notSd
\* bsp_sdcard_deinit("/sd"); _sd_card_mounted = false; return file_entries;
ScanDeinit ==
    /\ sd_pc = "deinit"
    /\ sd_log' = Append(sd_log, LogEntry("bsp_sdcard_deinit", "/sd", TRUE))
    /\ n_deinit' = n_deinit + 1
    /\ sd_card_mounted' = FALSE
    /\ scan_ret' = file_entries
    /\ sd_pc' = "idle"
    /\ UNCHANGED <<dirPath, file_entries, dir_stream, dir_pos,
                   mounted_at_call, n_scans, n_init_ok, is_mounted_ret>>
    /\ UNCHANGED notSd

\* isSdCardMounted, called between scans.
IsSdCardMounted ==
    /\ sd_pc = "idle"
    /\ is_mounted_ret' = {isSdCardMountedResult}
    /\ UNCHANGED <<sd_card_mounted, sd_pc, dirPath, file_entries, dir_stream,
                   dir_pos, sd_log, scan_ret, mounted_at_call, n_scans,
                   n_init_ok, n_deinit>>
    /\ UNCHANGED notSd

NextSd ==
    \/ \E path \in DirPaths, r \in EspErrs : ScanBegin(path, r)
    \/ \E opened \in BOOLEAN, listing \in DirListings : ScanOpendir(opened, listing)
    \/ ScanDeinitErr
    \/ ScanReaddir
    \/ ScanClosedir
    \/ ScanDeinit
    \/ IsSdCardMounted

----------------------------------------------------------------------------
(* Display brightness *)

\* uint8_t
ToUint8(v) == v % 256

\* Faulty variant: no upper limit.
Clamp_NoUpper(v, lo, hi) == IF v < lo THEN lo ELSE v
\* std::clamp(v, lo, hi)
Clamp(v, lo, hi) == IF v < lo THEN lo ELSE IF hi < v THEN hi ELSE v

InitDisplay ==
    /\ current_lcd_brightness = 100
    /\ hw_brightness = {}
    /\ brightness_arg = {}
    /\ brightness_ret = {}

\* Faulty variant: the unclamped argument goes to bsp_display_brightness_set.
SetDisplayBrightness_RawToBsp(brightness) ==
    /\ current_lcd_brightness' = ToUint8(Clamp(brightness, 0, 100))
    /\ hw_brightness' = {brightness}
    /\ brightness_arg' = {brightness}
    /\ brightness_ret' = {}
    /\ UNCHANGED notDisp
\* void HalEsp32::setDisplayBrightness(uint8_t brightness)
SetDisplayBrightness(brightness) ==
    /\ current_lcd_brightness' = ToUint8(Clamp(brightness, 0, 100))
    /\ hw_brightness' = {current_lcd_brightness'}
    /\ brightness_arg' = {brightness}
    /\ brightness_ret' = {}
    /\ UNCHANGED notDisp

\* uint8_t HalEsp32::getDisplayBrightness()
GetDisplayBrightness ==
    /\ brightness_ret' = {current_lcd_brightness}
    /\ UNCHANGED <<current_lcd_brightness, hw_brightness, brightness_arg>>
    /\ UNCHANGED notDisp

NextDisplay ==
    \/ \E b \in 0..255 : SetDisplayBrightness(b)
    \/ GetDisplayBrightness

----------------------------------------------------------------------------
(* I2C scan *)

Buses == {"internal", "external"}

\* Addresses at which a device may sit: the ends of the address space, of the
\* reserved ranges and of the scanned range, and some in between.
DeviceAddrs == {7, 8, 15, 16, 17, 60, 119, 120, 127}

\* Ways to populate the two buses.
Populations ==
    {[b \in Buses |-> {a \in DeviceAddrs : <<b, a>> \in P}] :
        P \in {Q \in SUBSET (Buses \X DeviceAddrs) : Cardinality(Q) <= MaxDevices}}

\* isInternal ? bsp_i2c_get_handle() : bsp_ext_i2c_get_handle()
BusHandle(isInternal) == IF isInternal THEN "internal" ELSE "external"

\* i2c_master_probe(i2c_bus_handle, address, 50)
i2c_master_probe(bus, address) ==
    IF address \in i2c_devices[bus] THEN "ESP_OK" ELSE "ESP_ERR_NOT_FOUND"

\* The (i, j) pairs the two nested for loops go through, in order:
\* for (int i = 16; i < 128; i += 16) for (int j = 0; j < 16; j++)
I2cIterations ==
    [n \in 1..(((128 - 16) \div 16) * 16) |->
        [i |-> 16 + 16 * ((n - 1) \div 16), j |-> (n - 1) % 16]]

\* address = i + j;  (uint8_t)
I2cAddress(it) == ToUint8(it.i + it.j)

\* Faulty variant: 0x78 itself is not skipped.
I2cSkipped_Above(address) == address > 120
\* if (address >= 0x78) continue;
I2cSkipped(address) == address >= 120

\* The addresses i2cScan probes, in order.
I2cProbeSeq ==
    SelectSeq([n \in 1..Len(I2cIterations) |-> I2cAddress(I2cIterations[n])],
              LAMBDA a : ~I2cSkipped(a))

\* if (ret == ESP_OK) addrs.push_back(address);
I2cFound(bus) ==
    SelectSeq(I2cProbeSeq, LAMBDA a : i2c_master_probe(bus, a) = "ESP_OK")

\* The i2c_master_probe calls of a scan of bus, in order, with their results.
I2cProbes(bus) ==
    [n \in 1..Len(I2cProbeSeq) |->
        [bus |-> bus, address |-> I2cProbeSeq[n],
         ret |-> i2c_master_probe(bus, I2cProbeSeq[n])]]

InitI2cState ==
    /\ i2c_isInternal = {}
    /\ i2c_bus = {}
    /\ i2c_probed = <<>>
    /\ i2c_addrs = <<>>

\* std::vector<uint8_t> HalEsp32::i2cScan(bool isInternal)
I2cScan(isInternal) ==
    LET bus == BusHandle(isInternal)
    IN  /\ i2c_isInternal' = {isInternal}
        /\ i2c_bus' = {bus}
        /\ i2c_probed' = I2cProbes(bus)
        /\ i2c_addrs' = I2cFound(bus)
        /\ UNCHANGED i2c_devices
        /\ UNCHANGED notI2c

NextI2c ==
    \E isInternal \in BOOLEAN : I2cScan(isInternal)

----------------------------------------------------------------------------
(* Kconfig.gc2145 *)

\* bool symbols, with the symbol each depends on ("" = none) and its default
BoolSyms == {"CAMERA_GC2145", "CAMERA_GC2145_AUTO_DETECT",
             "CAMERA_GC2145_AUTO_DETECT_MIPI_INTERFACE_SENSOR",
             "CAMERA_GC2145_AUTO_DETECT_DVP_INTERFACE_SENSOR"}

BoolDependsOn ==
    [s \in BoolSyms |->
        CASE s = "CAMERA_GC2145" -> ""
          [] s = "CAMERA_GC2145_AUTO_DETECT" -> "CAMERA_GC2145"
          [] OTHER -> "CAMERA_GC2145_AUTO_DETECT"]

BoolDefault ==
    [s \in BoolSyms |->
        CASE s = "CAMERA_GC2145" -> "n"
          [] s = "CAMERA_GC2145_AUTO_DETECT" -> "y"
          [] s = "CAMERA_GC2145_AUTO_DETECT_MIPI_INTERFACE_SENSOR" -> "y"
          [] OTHER -> "n"]

\* choice CAMERA_GC2145_MIPI_DEFAULT_FMT
MipiFmts == {"CAMERA_GC2145_MIPI_RGB565_1600x1200_7FPS",
             "CAMERA_GC2145_MIPI_RGB565_800x600_30FPS"}
MipiChoiceDefault == "CAMERA_GC2145_MIPI_RGB565_800x600_30FPS"

\* choice CAMERA_GC2145_DVP_DEFAULT_FMT
DvpFmts == {"CAMERA_GC2145_DVP_YUV422_640x480_15FPS",
            "CAMERA_GC2145_DVP_YUV422_1600x1200_13FPS",
            "CAMERA_GC2145_DVP_YUV422_800x600_20FPS"}
DvpChoiceDefault == "CAMERA_GC2145_DVP_YUV422_640x480_15FPS"

ChoiceSyms == {"CAMERA_GC2145_MIPI_DEFAULT_FMT", "CAMERA_GC2145_DVP_DEFAULT_FMT"}
ChoiceMembers ==
    [c \in ChoiceSyms |->
        IF c = "CAMERA_GC2145_MIPI_DEFAULT_FMT" THEN MipiFmts ELSE DvpFmts]
ChoiceDefault ==
    [c \in ChoiceSyms |->
        IF c = "CAMERA_GC2145_MIPI_DEFAULT_FMT" THEN MipiChoiceDefault
                                                ELSE DvpChoiceDefault]

\* config CAMERA_GC2145_MIPI_IF_FORMAT_INDEX_DAFAULT: "default <value> if <cond>"
MipiIndexDefaults ==
    << [value |-> 0, cond |-> "CAMERA_GC2145_MIPI_RGB565_1600x1200_7FPS"],
       [value |-> 1, cond |-> "CAMERA_GC2145_MIPI_RGB565_800x600_30FPS"] >>

\* Faulty variant: the DVP indices start at 1.
DvpIndexDefaults_FromOne ==
    << [value |-> 1, cond |-> "CAMERA_GC2145_DVP_YUV422_640x480_15FPS"],
       [value |-> 2, cond |-> "CAMERA_GC2145_DVP_YUV422_1600x1200_13FPS"],
       [value |-> 3, cond |-> "CAMERA_GC2145_DVP_YUV422_800x600_20FPS"] >>
\* config CAMERA_GC2145_DVP_IF_FORMAT_INDEX_DAFAULT
DvpIndexDefaults ==
    << [value |-> 2, cond |-> "CAMERA_GC2145_DVP_YUV422_640x480_15FPS"],
       [value |-> 3, cond |-> "CAMERA_GC2145_DVP_YUV422_1600x1200_13FPS"],
       [value |-> 4, cond |-> "CAMERA_GC2145_DVP_YUV422_800x600_20FPS"] >>

\* Value of a bool symbol under the user values k: "n" when its dependency is
\* not "y", else the user's value, else the default.
RECURSIVE BoolValue(_, _)
BoolValue(k, s) ==
    IF BoolDependsOn[s] # "" /\ BoolValue(k, BoolDependsOn[s]) # "y" THEN "n"
    ELSE IF k[s] = "unset" THEN BoolDefault[s]
    ELSE k[s]

\* Both choices sit inside "if CAMERA_GC2145".
ChoiceVisible(k) == BoolValue(k, "CAMERA_GC2145") = "y"

\* Selected member of a choice: none when the choice is not visible, else the
\* user's selection, else the choice's default.
ChoiceValue(k, c) ==
    IF ~ChoiceVisible(k) THEN "none"
    ELSE IF k[c] = "unset" THEN ChoiceDefault[c]
    ELSE k[c]

\* A choice member is y exactly when it is the selected one.
MemberIsY(k, m) == \E c \in ChoiceSyms : ChoiceValue(k, c) = m

\* The defaults of an int symbol whose condition holds.
MatchingDefaults(k, defaults) ==
    {i \in 1..Len(defaults) : MemberIsY(k, defaults[i].cond)}

\* Value of a promptless int symbol inside "if CAMERA_GC2145": the first
\* default whose condition holds; {} when the symbol has no value.
IntValue(k, defaults) ==
    LET m == MatchingDefaults(k, defaults) IN
    IF ~ChoiceVisible(k) \/ m = {} THEN {}
    ELSE {defaults[CHOOSE i \in m : \A j \in m : i <= j].value}

Evaluate(k) ==
    [bools  |-> [s \in BoolSyms |-> BoolValue(k, s)],
     mipi_fmt |-> ChoiceValue(k, "CAMERA_GC2145_MIPI_DEFAULT_FMT"),
     dvp_fmt  |-> ChoiceValue(k, "CAMERA_GC2145_DVP_DEFAULT_FMT"),
     CAMERA_GC2145_MIPI_IF_FORMAT_INDEX_DAFAULT |-> IntValue(k, MipiIndexDefaults),
     CAMERA_GC2145_DVP_IF_FORMAT_INDEX_DAFAULT  |-> IntValue(k, DvpIndexDefaults)]

InitKconfig ==
    /\ kconfig = [s \in BoolSyms \cup ChoiceSyms |-> "unset"]
    /\ sdkconfig = Evaluate(kconfig)

\* The user answers a visible bool prompt.
KconfigSetBool(s, v) ==
    /\ BoolDependsOn[s] # "" => BoolValue(kconfig, BoolDependsOn[s]) = "y"
    /\ kconfig' = [kconfig EXCEPT ![s] = v]
    /\ sdkconfig' = Evaluate(kconfig')
    /\ UNCHANGED notKc

\* The user selects a member of a visible choice.
KconfigChoose(c, m) ==
    /\ ChoiceVisible(kconfig)
    /\ kconfig' = [kconfig EXCEPT ![c] = m]
    /\ sdkconfig' = Evaluate(kconfig')
    /\ UNCHANGED notKc

NextKconfig ==
    \/ \E s \in BoolSyms, v \in {"y", "n"} : KconfigSetBool(s, v)
    \/ \E c \in ChoiceSyms : \E m \in ChoiceMembers[c] : KconfigChoose(c, m)

----------------------------------------------------------------------------
(* init and the touch read callback *)

\* void HalEsp32::clearRtcIrq()
ClearRtcIrqCalls == <<"clearRtcIrq", "rx8130.clearIrqFlags", "rx8130.disableIrq">>

\* void HalEsp32::update_system_time()
UpdateSystemTimeCalls ==
    <<"update_system_time", "rx8130.getTime", "mktime", "settimeofday">>

\* HalEsp32::init up to the RTC set-up.
InitPeripheralCalls ==
    <<"bsp_cam_osc_init", "bsp_i2c_init", "bsp_i2c_get_handle",
      "bsp_io_expander_pi4ioe_init", "setChargeQcEnable", "delay",
      "setChargeEnable", "bsp_i2c_scan", "delay", "bsp_codec_init",
      "imu_init", "ina226.begin", "ina226.configure", "ina226.calibrate",
      "ina226.readBusVoltage", "rx8130.begin", "rx8130.initBat">>

\* HalEsp32::init, display and touch input device.
InitDisplayCalls ==
    <<"bsp_reset_tp", "bsp_display_start_with_config",
      "lv_display_set_rotation", "bsp_display_backlight_on",
      "lv_indev_create", "lv_indev_set_type", "lv_indev_set_read_cb",
      "lv_indev_set_display">>

\* Faulty variant: the display is unlocked before the remaining set-up.
InitTailCalls_UnlockEarly ==
    <<"bsp_display_unlock", "bsp_usb_host_start", "hid_init", "rs485_init",
      "set_gpio_output_capability">>
\* HalEsp32::init, the rest.
InitTailCalls ==
    <<"bsp_usb_host_start", "hid_init", "rs485_init",
      "set_gpio_output_capability", "bsp_display_unlock">>

\* All calls of HalEsp32::init, in program order.
InitCalls ==
    InitPeripheralCalls \o ClearRtcIrqCalls \o UpdateSystemTimeCalls
        \o InitDisplayCalls \o InitTailCalls

\* What bsp_display_start_with_config can leave in _lcd_touch_handle.
TouchHandles == {"NULL", "tp"}

\* Panel coordinates a touch can report.
TouchCoords == {0, 5, 719}

IndevStates == {"LV_INDEV_STATE_REL", "LV_INDEV_STATE_PR"}

\* lv_indev_data_t as far as lvgl_read_cb uses it.
IndevData == [state : IndevStates, point : TouchCoords \X TouchCoords]

InitUi ==
    /\ init_log = <<>>
    /\ lcd_touch_handle = "NULL"
    /\ cb_data_in = {}
    /\ cb_data_out = {}
    /\ cb_touched = {}
    /\ cb_touch = {}
    /\ cb_calls = <<>>

\* The next call of HalEsp32::init; handle is what the BSP's display start
\* leaves in _lcd_touch_handle.
InitStep(handle) ==
    /\ Len(init_log) < Len(InitCalls)
    /\ LET call == InitCalls[Len(init_log) + 1] IN
        /\ init_log' = Append(init_log, call)
        /\ lcd_touch_handle' = IF call = "bsp_display_start_with_config"
                               THEN handle ELSE lcd_touch_handle
    /\ UNCHANGED <<cb_data_in, cb_data_out, cb_touched, cb_touch, cb_calls>>
    /\ UNCHANGED notUi

\* LVGL calls the read callback once lv_indev_set_read_cb has registered it.
ReadCbRegistered == \E i \in DOMAIN init_log : init_log[i] = "lv_indev_set_read_cb"

\* Faulty variant: the handle is never taken to be invalid.
TouchHandleIsNull_Never(handle) == FALSE
\* if (_lcd_touch_handle == NULL)
TouchHandleIsNull(handle) == handle = "NULL"

\* Faulty variant: the coordinates are stored whether pressed or not.
ReadCbResult_AlwaysPoint(data, touchpad_pressed, touch_x, touch_y) ==
    [state |-> IF touchpad_pressed THEN "LV_INDEV_STATE_PR"
                                   ELSE "LV_INDEV_STATE_REL",
     point |-> <<touch_x, touch_y>>]
\* if (!touchpad_pressed) { data->state = REL; }
\* else { data->state = PR; data->point.x = touch_x[0]; data->point.y = touch_y[0]; }
ReadCbResult(data, touchpad_pressed, touch_x, touch_y) ==
    IF ~touchpad_pressed
    THEN [data EXCEPT !.state = "LV_INDEV_STATE_REL"]
    ELSE [state |-> "LV_INDEV_STATE_PR", point |-> <<touch_x, touch_y>>]

\* static void lvgl_read_cb(lv_indev_t* indev, lv_indev_data_t* data)
\* data: *data as LVGL passes it; touched, x, y: what the panel senses.
\* When the panel is not touched touch_x[0], touch_y[0] are not written by
\* esp_lcd_touch_get_coordinates: x, y then stand for their indeterminate
\* contents.
LvglReadCb(data, touched, x, y) ==
    /\ ReadCbRegistered
    /\ cb_data_in' = {data}
    /\ cb_touched' = {touched}
    /\ cb_touch' = {<<x, y>>}
    /\ IF TouchHandleIsNull(lcd_touch_handle)
       THEN /\ cb_data_out' = {[data EXCEPT !.state = "LV_INDEV_STATE_REL"]}
            /\ cb_calls' = <<>>
       ELSE /\ cb_calls' = <<[op |-> "esp_lcd_touch_read_data", handle |-> lcd_touch_handle],
                            [op |-> "esp_lcd_touch_get_coordinates", handle |-> lcd_touch_handle]>>
            /\ cb_data_out' = {ReadCbResult(data, touched, x, y)}
    /\ UNCHANGED <<init_log, lcd_touch_handle>>
    /\ UNCHANGED notUi

NextUi ==
    \/ \E handle \in TouchHandles : InitStep(handle)
    \/ \E data \in IndevData, touched \in BOOLEAN, x \in TouchCoords, y \in TouchCoords :
          LvglReadCb(data, touched, x, y)

----------------------------------------------------------------------------
(* Specifications *)

NoDevices == [b \in Buses |-> {}]

\* SD card scans.
InitSdSpec ==
    InitSd /\ InitDisplay /\ InitI2cState /\ i2c_devices = NoDevices /\ InitKconfig /\ InitUi
SpecSd == InitSdSpec /\ [][NextSd]_vars

\* Display brightness.
SpecDisplay == InitSdSpec /\ [][NextDisplay]_vars

\* I2C scans, over every population of the buses.
InitI2cSpec ==
    InitSd /\ InitDisplay /\ InitI2cState /\ i2c_devices \in Populations /\ InitKconfig /\ InitUi
SpecI2c == InitI2cSpec /\ [][NextI2c]_vars

\* Build configuration.
SpecKconfig == InitSdSpec /\ [][NextKconfig]_vars

\* init, and the touch read callback once init has registered it.
SpecUi == InitSdSpec /\ [][NextUi]_vars

----------------------------------------------------------------------------
(* Properties *)

Range(s) == {s[i] : i \in DOMAIN s}

\* Positions of the calls to op in the log of the current / last scan.
LogIdx(op) == {i \in 1..Len(sd_log) : sd_log[i].op = op}

\* The current / last scan got past the mount and opendir gave ok.
OpendirGave(ok) ==
    /\ Len(sd_log) >= 2
    /\ sd_log[2].op = "opendir"
    /\ sd_log[2].ok = ok

\* C1: a scanSdCard call whose bsp_sdcard_init did not return ESP_OK has
\* returned an empty list, has called nothing but bsp_sdcard_init (no opendir,
\* readdir, closedir, bsp_sdcard_deinit) and has left _sd_card_mounted at the
\* value it had when the call began.
C1_MountFailure ==
    (sd_log # <<>> /\ ~sd_log[1].ok) =>
        /\ sd_pc = "idle"
        /\ scan_ret = <<>>
        /\ Len(sd_log) = 1
        /\ sd_card_mounted = mounted_at_call

\* A mount failure after an earlier scan that mounted the card.
C1_Witness ==
    /\ sd_log # <<>>
    /\ ~sd_log[1].ok
    /\ sd_pc = "idle"
    /\ n_init_ok >= 1
    /\ n_scans >= 2

\* C2: a scanSdCard call that mounted the card and whose opendir returned null
\* returns an empty list, has called bsp_sdcard_deinit("/sd") exactly once,
\* has set _sd_card_mounted to false, and has called neither readdir nor
\* closedir.
C2_OpendirFailure ==
    (OpendirGave(FALSE) /\ sd_pc = "idle") =>
        /\ scan_ret = <<>>
        /\ Cardinality(LogIdx("bsp_sdcard_deinit")) = 1
        /\ \A i \in LogIdx("bsp_sdcard_deinit") : sd_log[i].arg = "/sd"
        /\ sd_card_mounted = FALSE
        /\ LogIdx("readdir") = {}
        /\ LogIdx("closedir") = {}

\* A scan that mounted, failed to open the directory and returned.
C2_Witness ==
    /\ OpendirGave(FALSE)
    /\ sd_log[1].ok
    /\ sd_pc = "idle"

\* C3: at every return from scanSdCard the successful bsp_sdcard_init calls
\* and the bsp_sdcard_deinit calls are equal in number and _sd_card_mounted is
\* false; _sd_card_mounted is true only inside a call, after a successful
\* bsp_sdcard_init and before the matching bsp_sdcard_deinit.
C3_MountBalance ==
    /\ sd_pc = "idle" => (n_init_ok = n_deinit /\ sd_card_mounted = FALSE)
    /\ sd_card_mounted =>
        /\ sd_pc # "idle"
        /\ sd_log # <<>> /\ sd_log[1].ok
        /\ LogIdx("bsp_sdcard_deinit") = {}
        /\ n_init_ok = n_deinit + 1

\* Three scans returned: one failed to mount, two mounted, and the last of
\* them failed to open the directory.
C3_Witness ==
    /\ sd_pc = "idle"
    /\ n_scans = 3
    /\ n_init_ok = 2
    /\ n_deinit = 2
    /\ OpendirGave(FALSE)

\* C4: isSdCardMounted returns true exactly when the card is mounted, that is,
\* its result equals _sd_card_mounted; between scans it returns false.
C4_IsMountedMirrorsFlag ==
    \A v \in is_mounted_ret : v = sd_card_mounted

\* The list scanSdCard is to return for the entries readdir yielded: one
\* FileEntry_t for each entry not named "." or "..", in the same order.
ExpectedEntries(yielded) ==
    LET keep == SelectSeq(yielded, LAMBDA e : e.d_name \notin {".", ".."})
    IN  [i \in 1..Len(keep) |->
            [name |-> keep[i].d_name, isDir |-> (keep[i].d_type = "DT_DIR")]]

\* C5: a scanSdCard call that mounted the card and opened the directory
\* returns exactly one FileEntry_t for every entry readdir yielded whose name
\* is neither "." nor "..", in readdir's order, name = d_name and isDir true
\* exactly when d_type is DT_DIR; readdir was called until it gave null.
C5_ReturnedEntries ==
    (OpendirGave(TRUE) /\ sd_pc = "idle") =>
        /\ dir_pos = Len(dir_stream)
        /\ Cardinality(LogIdx("readdir")) = Len(dir_stream) + 1
        /\ scan_ret = ExpectedEntries(dir_stream)

\* A returned scan of a directory holding a dot entry and an entry of
\* unknown type.
C5_Witness ==
    /\ OpendirGave(TRUE)
    /\ sd_pc = "idle"
    /\ \E i \in DOMAIN dir_stream : dir_stream[i].d_name \in {".", ".."}
    /\ \E i \in DOMAIN dir_stream : dir_stream[i].d_type = "DT_UNKNOWN"
    /\ Len(scan_ret) = 1

\* C6: every address in 0x08..0x77 at which a device on the selected bus
\* acknowledges is in the list i2cScan returns.
C6_AllAckingReturned ==
    \A b \in i2c_bus : \A a \in 8..119 :
        a \in i2c_devices[b] => a \in Range(i2c_addrs)

\* C7: _current_lcd_brightness is in 0..100 in every reachable state.
C7_BrightnessRange ==
    current_lcd_brightness \in 0..100

\* A call with an argument above 100 has been made.
C7_Witness ==
    /\ \E b \in brightness_arg : b > 100
    /\ current_lcd_brightness = 100

Min(a, b) == IF a < b THEN a ELSE b

\* C8: after setDisplayBrightness(b), getDisplayBrightness returns min(b, 100)
\* and that value is the one last given to bsp_display_brightness_set; before
\* any setDisplayBrightness, getDisplayBrightness returns 100.
C8_ReadBack ==
    /\ \A b \in brightness_arg :
          /\ hw_brightness = {Min(b, 100)}
          /\ \A v \in brightness_ret : v = Min(b, 100)
    /\ brightness_arg = {} => (hw_brightness = {} /\ \A v \in brightness_ret : v = 100)

\* getDisplayBrightness has returned after a setDisplayBrightness(b), b < 100.
C8_Witness ==
    /\ brightness_ret # {}
    /\ \E b \in brightness_arg : b < 100 /\ b > 0

\* The index stated for each default format.
FormatIndex ==
    [m \in MipiFmts \cup DvpFmts |->
        CASE m = "CAMERA_GC2145_MIPI_RGB565_1600x1200_7FPS" -> 0
          [] m = "CAMERA_GC2145_MIPI_RGB565_800x600_30FPS" -> 1
          [] m = "CAMERA_GC2145_DVP_YUV422_640x480_15FPS" -> 2
          [] m = "CAMERA_GC2145_DVP_YUV422_1600x1200_13FPS" -> 3
          [] OTHER -> 4]

\* C9: with CAMERA_GC2145 enabled each selection gives both index symbols
\* exactly one value: MIPI 0 / 1 (1 when nothing was selected), DVP 2 / 3 / 4
\* (2 when nothing was selected); exactly one default applies to each; and no
\* index is both a MIPI and a DVP index.
C9_FormatIndex ==
    sdkconfig.bools["CAMERA_GC2145"] = "y" =>
        /\ sdkconfig.mipi_fmt \in MipiFmts
        /\ sdkconfig.dvp_fmt \in DvpFmts
        /\ sdkconfig.CAMERA_GC2145_MIPI_IF_FORMAT_INDEX_DAFAULT
              = {FormatIndex[sdkconfig.mipi_fmt]}
        /\ sdkconfig.CAMERA_GC2145_DVP_IF_FORMAT_INDEX_DAFAULT
              = {FormatIndex[sdkconfig.dvp_fmt]}
        /\ Cardinality(MatchingDefaults(kconfig, MipiIndexDefaults)) = 1
        /\ Cardinality(MatchingDefaults(kconfig, DvpIndexDefaults)) = 1
        /\ kconfig["CAMERA_GC2145_MIPI_DEFAULT_FMT"] = "unset"
              => sdkconfig.CAMERA_GC2145_MIPI_IF_FORMAT_INDEX_DAFAULT = {1}
        /\ kconfig["CAMERA_GC2145_DVP_DEFAULT_FMT"] = "unset"
              => sdkconfig.CAMERA_GC2145_DVP_IF_FORMAT_INDEX_DAFAULT = {2}
        /\ {MipiIndexDefaults[i].value : i \in DOMAIN MipiIndexDefaults}
              \cap {DvpIndexDefaults[i].value : i \in DOMAIN DvpIndexDefaults} = {}

\* GC2145 enabled, a non-default MIPI format selected, the DVP format left
\* at its default.
C9_Witness ==
    /\ sdkconfig.bools["CAMERA_GC2145"] = "y"
    /\ kconfig["CAMERA_GC2145_MIPI_DEFAULT_FMT"] = "CAMERA_GC2145_MIPI_RGB565_1600x1200_7FPS"
    /\ kconfig["CAMERA_GC2145_DVP_DEFAULT_FMT"] = "unset"

\* C10: within one scanSdCard call the calls come in the order
\* bsp_sdcard_init, opendir, readdir*, closedir, bsp_sdcard_deinit: opendir
\* and readdir only after a successful mount and before the deinit, readdir
\* only on an opened directory and never after closedir, and an opened
\* directory closed exactly once before bsp_sdcard_deinit.
C10_CallOrder ==
    LET inits   == LogIdx("bsp_sdcard_init")
        opens   == LogIdx("opendir")
        reads   == LogIdx("readdir")
        closes  == LogIdx("closedir")
        deinits == LogIdx("bsp_sdcard_deinit")
    IN  /\ sd_log # <<>> => inits = {1}
        /\ Cardinality(opens) <= 1
        /\ Cardinality(closes) <= 1
        /\ Cardinality(deinits) <= 1
        /\ \A i \in opens \cup reads :
              /\ sd_log[1].ok
              /\ \A d \in deinits : i < d
        /\ \A r \in reads :
              /\ \E o \in opens : o < r /\ sd_log[o].ok
              /\ \A c \in closes : r < c
        /\ \A c \in closes : \E o \in opens : o < c /\ sd_log[o].ok
        /\ \A d \in deinits :
              /\ d = Len(sd_log)
              /\ \A o \in opens :
                    sd_log[o].ok => \E c \in closes : o < c /\ c < d
        /\ (sd_pc = "idle" /\ sd_log # <<>> /\ sd_log[1].ok) => deinits # {}

\* A scan that read two entries, closed the directory and unmounted.
C10_Witness ==
    /\ sd_pc = "idle"
    /\ Cardinality(LogIdx("readdir")) = 3
    /\ LogIdx("closedir") # {}
    /\ LogIdx("bsp_sdcard_deinit") # {}

\* C11: i2cScan(isInternal) probes only the selected bus (internal when
\* isInternal, else the external Port A bus), probes each address 0x10..0x77
\* exactly once, in ascending order, and no other address; the list it
\* returns is the probed addresses whose probe gave ESP_OK, in ascending
\* order and without duplicates.
C11_ProbeOrder ==
    \A isInternal \in i2c_isInternal :
        LET selected == IF isInternal THEN "internal" ELSE "external"
            acked    == SelectSeq(i2c_probed, LAMBDA p : p.ret = "ESP_OK")
        IN  /\ \A n \in DOMAIN i2c_probed : i2c_probed[n].bus = selected
            /\ Len(i2c_probed) = 119 - 16 + 1
            /\ \A n \in DOMAIN i2c_probed : i2c_probed[n].address = 16 + (n - 1)
            /\ i2c_addrs = [n \in 1..Len(acked) |-> acked[n].address]
            /\ Range(i2c_addrs) = i2c_devices[selected] \cap (16..119)
            /\ \A m, n \in DOMAIN i2c_addrs : m < n => i2c_addrs[m] < i2c_addrs[n]

\* A scan of the external bus that found two devices, one of them at the
\* last scanned address.
C11_Witness ==
    /\ i2c_isInternal = {FALSE}
    /\ Len(i2c_addrs) = 2
    /\ i2c_addrs[2] = 119

\* Positions of the calls to c in init's log.
InitPos(c) == {i \in DOMAIN init_log : init_log[i] = c}

\* Every call to b made so far came after a call to a.
InitBefore(a, b) == \A j \in InitPos(b) : \E i \in InitPos(a) : i < j

InitDone == Len(init_log) = Len(InitCalls)

\* The calls of init that use the internal I2C bus.
InternalI2cUses ==
    {"bsp_io_expander_pi4ioe_init", "setChargeQcEnable", "setChargeEnable",
     "bsp_i2c_scan", "bsp_codec_init", "ina226.begin", "rx8130.begin"}

\* The calls of init that need the started display.
DisplayUses ==
    {"lv_display_set_rotation", "bsp_display_backlight_on", "lv_indev_create",
     "lv_indev_set_display"}

\* C12: in init, bsp_i2c_init comes before every use of the internal I2C
\* bus; rx8130.begin before clearRtcIrq and update_system_time;
\* bsp_display_start_with_config before the rotation is set, the backlight
\* is turned on and the touch input device is created and bound to the
\* display; bsp_display_unlock is called exactly once, as the last step.
C12_InitOrder ==
    /\ \A u \in InternalI2cUses : InitBefore("bsp_i2c_init", u)
    /\ InitBefore("rx8130.begin", "clearRtcIrq")
    /\ InitBefore("rx8130.begin", "update_system_time")
    /\ \A u \in DisplayUses : InitBefore("bsp_display_start_with_config", u)
    /\ InitBefore("lv_indev_create", "lv_indev_set_display")
    /\ Cardinality(InitPos("bsp_display_unlock")) <= 1
    /\ \A i \in InitPos("bsp_display_unlock") : i = Len(init_log) /\ InitDone
    /\ InitDone =>
          /\ InitPos("bsp_display_unlock") = {Len(init_log)}
          /\ \A u \in InternalI2cUses \cup DisplayUses
                      \cup {"clearRtcIrq", "update_system_time"} :
                InitPos(u) # {}

\* init has run to its end.
C12_Witness ==
    /\ InitDone
    /\ lcd_touch_handle = "tp"

\* C13: every lvgl_read_cb call leaves data->state released or pressed;
\* pressed exactly when the touch handle is not null and the panel reports a
\* touch; with a null handle it reports released and calls neither
\* esp_lcd_touch_read_data nor esp_lcd_touch_get_coordinates.
C13_ReadCbState ==
    \A d \in cb_data_out :
        /\ d.state \in {"LV_INDEV_STATE_REL", "LV_INDEV_STATE_PR"}
        /\ d.state = "LV_INDEV_STATE_PR"
              <=> (lcd_touch_handle # "NULL" /\ cb_touched = {TRUE})
        /\ lcd_touch_handle = "NULL" =>
              /\ d.state = "LV_INDEV_STATE_REL"
              /\ cb_calls = <<>>

\* A callback that ran with a null handle while the panel was touched.
C13_Witness ==
    /\ cb_data_out # {}
    /\ lcd_touch_handle = "NULL"
    /\ cb_touched = {TRUE}

\* C14: lvgl_read_cb writes data->point only when it reports pressed, and
\* then to (touch_x[0], touch_y[0]); when it reports released, data->point is
\* what it was when the callback began.
C14_ReadCbPoint ==
    \A d \in cb_data_out : \A d0 \in cb_data_in :
        /\ d.state = "LV_INDEV_STATE_PR" => cb_touch = {d.point}
        /\ d.state = "LV_INDEV_STATE_REL" => d.point = d0.point

\* A released report, with a valid handle, on data that held another point
\* than the one in touch_x[0], touch_y[0].
C14_Witness ==
    /\ lcd_touch_handle = "tp"
    /\ \E d \in cb_data_out : \E d0 \in cb_data_in :
          /\ d.state = "LV_INDEV_STATE_REL"
          /\ d0.state = "LV_INDEV_STATE_PR"
          /\ cb_touch # {d0.point}

====
